---- MODULE Spec2Model ----
(***************************************************************************)
(* Blogicum: the request handlers of blog/views.py over the stored posts,  *)
(* comments and users, with the published-posts manager of                 *)
(* blog/managers.py.  One action per request handler; every action leaves  *)
(* the response it produced in resp.                                       *)
(***************************************************************************)
EXTENDS Integers, Sequences, FiniteSets

VARIABLES posts, comments, users, now, resp

vars == <<posts, comments, users, now, resp>>

-----------------------------------------------------------------------------
(* Bounds of the model *)

MaxPosts == 2
MaxComments == 2
MaxTime == 1
MaxLen == 4
MaxPerPage == 2

(* Program constants *)

DefaultPerPage == 10
BLOG_PAGINATE_BY == 10

-----------------------------------------------------------------------------
(* Identities and input domains *)

Users == {"u1", "u2"}
Anonymous == "anon"
Requesters == Users \cup {Anonymous}
Usernames == Users \cup {"nobody"}

\* Category rows are administrative: the handlers only read them.
Categories == {"open", "closed"}
Slugs == Categories \cup {"none"}
CategoryIsPublished(c) == c = "open"

Times == 0..MaxTime
\* A date field that does not parse.
BadDate == 0 - 1
Texts == {"a", "b"}
Emails == {"a@x", "b@x"}
BadEmail == "bad"
Methods == {"GET", "POST"}

NoPost == [exists |-> FALSE, author |-> "", category |-> "", pub_date |-> 0,
           is_published |-> FALSE]
NoComment == [exists |-> FALSE, author |-> "", post_id |-> 0, text |-> "",
              post_was_public |-> FALSE]

-----------------------------------------------------------------------------
(* Sequences of primary keys stand for querysets *)

RECURSIVE Filter(_, _)
Filter(s, keep) ==
    IF s = <<>> THEN <<>>
    ELSE IF Head(s) \in keep THEN <<Head(s)>> \o Filter(Tail(s), keep)
         ELSE Filter(Tail(s), keep)

Range(s) == {s[i] : i \in 1..Len(s)}

-----------------------------------------------------------------------------
(* The page request parameter: absent, or the text of ?page=... *)

MaxParamLen == 2
Digits == {"0", "1", "2", "3"}
Chars == Digits \cup {"-", "+", " ", "x"}

RECURSIVE Strings(_)
Strings(n) ==
    IF n = 0 THEN {<<>>}
    ELSE LET shorter == Strings(n - 1)
         IN  shorter \cup {Append(s, c) : s \in shorter, c \in Chars}

NoParam == [present |-> FALSE, text |-> <<>>]
PageParams == {NoParam} \cup {[present |-> TRUE, text |-> s] : s \in Strings(MaxParamLen)}
Text(s) == [present |-> TRUE, text |-> s]
\* The page parameters the handler actions are driven with.
PageInputs == {NoParam, Text(<<"1">>), Text(<<"2">>), Text(<<"x">>)}

DigitValue(c) == CASE c = "0" -> 0 [] c = "1" -> 1 [] c = "2" -> 2 [] c = "3" -> 3

RECURSIVE LStrip(_)
LStrip(s) == IF s # <<>> /\ Head(s) = " " THEN LStrip(Tail(s)) ELSE s

RECURSIVE RStrip(_)
RStrip(s) ==
    IF s # <<>> /\ s[Len(s)] = " " THEN RStrip(SubSeq(s, 1, Len(s) - 1)) ELSE s

RECURSIVE Decimal(_)
Decimal(s) ==
    IF s = <<>> THEN 0 ELSE 10 * Decimal(SubSeq(s, 1, Len(s) - 1)) + DigitValue(s[Len(s)])

\* int(text): surrounding blanks dropped, an optional sign, then one digit or more.
ParseInt(s) ==
    LET t == RStrip(LStrip(s))
        signed == t # <<>> /\ Head(t) \in {"-", "+"}
        body == IF signed THEN Tail(t) ELSE t
        ok == body # <<>> /\ \A i \in 1..Len(body) : body[i] \in Digits
    IN  [ok |-> ok,
         value |-> IF ~ok THEN 0
                   ELSE IF signed /\ Head(t) = "-" THEN 0 - Decimal(body)
                   ELSE Decimal(body)]

-----------------------------------------------------------------------------
(* django.core.paginator.Paginator as the handlers use it *)

NoPage == [number |-> 0, object_list |-> <<>>, has_next |-> FALSE,
           has_previous |-> FALSE, num_pages |-> 0]

Max(a, b) == IF a >= b THEN a ELSE b
Min(a, b) == IF a <= b THEN a ELSE b
CeilDiv(a, b) == (a + b - 1) \div b

\* Paginator.num_pages with orphans = 0 and allow_empty_first_page = True.
num_pages(object_list, per_page) == CeilDiv(Max(1, Len(object_list)), per_page)

\* Paginator.validate_number: "ok", "PageNotAnInteger" or "EmptyPage".
validate_number(object_list, per_page, param) ==
    LET n == ParseInt(param.text)
    IN  IF ~param.present \/ ~n.ok THEN [kind |-> "PageNotAnInteger", number |-> 0]
        ELSE IF n.value < 1 THEN [kind |-> "EmptyPage", number |-> 0]
        ELSE IF n.value > num_pages(object_list, per_page)
             THEN [kind |-> "EmptyPage", number |-> 0]
        ELSE [kind |-> "ok", number |-> n.value]

\* Paginator.page for a valid number.
page(object_list, per_page, number) ==
    LET bottom == (number - 1) * per_page
        top == Min(bottom + per_page, Len(object_list))
    IN  [number |-> number,
         object_list |-> SubSeq(object_list, bottom + 1, top),
         has_next |-> number < num_pages(object_list, per_page),
         has_previous |-> number > 1,
         num_pages |-> num_pages(object_list, per_page)]

\* Paginator.get_page: page 1 for a non-integer, the last page when out of range.
get_page(object_list, per_page, param) ==
    LET v == validate_number(object_list, per_page, param)
        number == CASE v.kind = "PageNotAnInteger" -> 1
                    [] v.kind = "EmptyPage" -> num_pages(object_list, per_page)
                    [] OTHER -> v.number
    IN  page(object_list, per_page, number)

\* Paginator.page raising EmptyPage answered with the first page.
paginate_objects_first_page(param, objects_list, per_page) ==
    IF validate_number(objects_list, per_page, param).kind = "ok"
    THEN get_page(objects_list, per_page, param)
    ELSE page(objects_list, per_page, 1)

paginate_objects(param, objects_list, per_page) ==
    get_page(objects_list, per_page, param)

\* MultipleObjectMixin.paginate_queryset, which ListView runs before the
\* view's own get_context_data: Http404 unless the parameter names a page.
paginate_queryset_ok(object_list, per_page, param) ==
    \/ ~param.present
    \/ param.text = <<>>
    \/ /\ ParseInt(param.text).ok
       /\ validate_number(object_list, per_page, param).kind = "ok"

-----------------------------------------------------------------------------
(* blog/managers.py *)

PostIds == 1..Len(posts)
CommentIds == 1..Len(comments)

RECURSIVE Ascending(_, _)
Ascending(lo, hi) == IF lo > hi THEN <<>> ELSE <<lo>> \o Ascending(lo + 1, hi)

\* Post.objects: every stored post, in the order the table yields them.
PostManager_get_queryset ==
    Filter(Ascending(1, Len(posts)), {i \in PostIds : posts[i].exists})

\* A variant whose filter reads the clock once, when the manager is built.
PublishedPostManager_clock_read_once ==
    Filter(PostManager_get_queryset,
           {i \in PostIds : /\ posts[i].pub_date <= 0
                            /\ posts[i].is_published
                            /\ CategoryIsPublished(posts[i].category)})

\* A variant whose filter has no category clause.
PublishedPostManager_no_category ==
    Filter(PostManager_get_queryset,
           {i \in PostIds : posts[i].pub_date <= now /\ posts[i].is_published})

PublishedPostManager_get_queryset ==
    Filter(PostManager_get_queryset,
           {i \in PostIds : /\ posts[i].pub_date <= now
                            /\ posts[i].is_published
                            /\ CategoryIsPublished(posts[i].category)})

\* The model's default manager, which generic views, get_object_or_404(Post, ...)
\* and the reverse relation user.posts use.
Post_default_manager == PostManager_get_queryset

Comment_default_manager ==
    Filter(Ascending(1, Len(comments)), {i \in CommentIds : comments[i].exists})

-----------------------------------------------------------------------------
(* Requests and responses *)

NoResponse ==
    [view |-> "", user |-> "", name |-> "", pk |-> 0, cid |-> 0, method |-> "",
     form |-> "none", status |-> "", to |-> "", to_pk |-> 0,
     object_list |-> <<>>, page_obj |-> NoPage, param |-> NoParam, per_page |-> 0]

Request(view, user, name, pk, cid, method) ==
    [NoResponse EXCEPT !.view = view, !.user = user, !.name = name, !.pk = pk,
                       !.cid = cid, !.method = method]

\* render(...): 200 with the template's context.
Render(req) == [req EXCEPT !.status = "ok"]
\* redirect(to, pk=...)
Redirect(req, to, to_pk) == [req EXCEPT !.status = "redirect", !.to = to, !.to_pk = to_pk]
\* Http404, as get_object_or_404 raises it.
NotFound(req) == [req EXCEPT !.status = "404"]
\* An exception no handler catches.
ServerError(req) == [req EXCEPT !.status = "error"]

PostData == [category : Categories, pub_date : Times \cup {BadDate}, is_published : BOOLEAN]

\* Form(request.POST or None): bound by a POST, valid when every field parses.
PostForm_is_valid(method, data) == method = "POST" /\ data.pub_date \in Times
CommentForm_is_valid(method, text) == method = "POST" /\ text \in Texts
ProfileForm_is_valid(method, email) == method = "POST" /\ email \in Emails

\* What became of the form: never validated, unbound, invalid or valid.
FormState(method, valid) ==
    IF method # "POST" THEN "unbound" ELSE IF valid THEN "valid" ELSE "invalid"
Validated(req, valid) == [req EXCEPT !.form = FormState(req.method, valid)]

-----------------------------------------------------------------------------
(* blog/views.py *)

edit_profile(r, name, method, email) ==
    LET req == Request("edit_profile", r, name, 0, 0, method)
        valid == ProfileForm_is_valid(method, email)
        own == name \in Users /\ name = r
    IN  /\ resp' = IF name \notin Users THEN NotFound(req)
                   ELSE IF name # r THEN Redirect(req, "login", 0)
                   ELSE Render(Validated(req, valid))
        /\ users' = IF own /\ valid THEN [users EXCEPT ![name] = email] ELSE users
        /\ UNCHANGED <<posts, comments, now>>

\* user.posts.all()
profile_post(name) ==
    Filter(Post_default_manager, {i \in PostIds : posts[i].author = name})

\* A variant that shows posts outside the published set to their author only.
info_profile_response_owner_only(r, name, param) ==
    LET req == Request("info_profile", r, name, 0, 0, "GET")
        shown == IF r = name THEN profile_post(name)
                 ELSE Filter(profile_post(name), Range(PublishedPostManager_get_queryset))
    IN  IF name \notin Users THEN NotFound(req)
        ELSE Render([req EXCEPT
                 !.object_list = shown,
                 !.page_obj = paginate_objects(param, shown, DefaultPerPage)])

info_profile_response(r, name, param) ==
    LET req == Request("info_profile", r, name, 0, 0, "GET")
    IN  IF name \notin Users THEN NotFound(req)
        ELSE Render([req EXCEPT
                 !.object_list = profile_post(name),
                 !.page_obj = paginate_objects(param, profile_post(name), DefaultPerPage)])

info_profile(r, name, param) ==
    /\ resp' = info_profile_response(r, name, param)
    /\ UNCHANGED <<posts, comments, users, now>>

PostListView_get_queryset == PublishedPostManager_get_queryset

\* PostListView: ListView.get, then the view's get_context_data.
PostListView(param) ==
    LET req == Request("index", "", "", 0, 0, "GET")
        object_list == PostListView_get_queryset
    IN  /\ resp' = IF ~paginate_queryset_ok(object_list, BLOG_PAGINATE_BY, param)
                   THEN NotFound(req)
                   ELSE Render([req EXCEPT
                            !.object_list = object_list,
                            !.page_obj = get_page(object_list, BLOG_PAGINATE_BY, param)])
        /\ UNCHANGED <<posts, comments, users, now>>

\* category.posts(manager='published').all()
category_post_list(slug) ==
    Filter(PublishedPostManager_get_queryset, {i \in PostIds : posts[i].category = slug})

category_posts(category_slug, param) ==
    LET req == Request("category_posts", "", category_slug, 0, 0, "GET")
        post_list == category_post_list(category_slug)
    IN  /\ resp' = IF category_slug \notin Categories \/ ~CategoryIsPublished(category_slug)
                   THEN NotFound(req)
                   ELSE Render([req EXCEPT
                            !.object_list = post_list,
                            !.page_obj = paginate_objects(param, post_list, DefaultPerPage)])
        /\ UNCHANGED <<posts, comments, users, now>>

PostCreateView(r, method, data) ==
    LET req == Request("post_create", r, "", 0, 0, method)
        valid == PostForm_is_valid(method, data)
        saves == r \in Users /\ valid
    IN  /\ saves => Len(posts) < MaxPosts
        /\ resp' = IF r \notin Users THEN Redirect(req, "login", 0)
                   ELSE IF valid THEN Redirect([Validated(req, valid) EXCEPT !.name = r],
                                               "profile", 0)
                   ELSE Render(Validated(req, valid))
        /\ posts' = IF saves
                    THEN Append(posts, [exists |-> TRUE, author |-> r,
                                        category |-> data.category,
                                        pub_date |-> data.pub_date,
                                        is_published |-> data.is_published])
                    ELSE posts
        /\ UNCHANGED <<comments, users, now>>

\* A variant without the author comparison.
DispatchMixin_dispatch_any_user(r, pk) ==
    IF r \notin Users THEN "login"
    ELSE IF pk \notin Range(Post_default_manager) THEN "404"
    ELSE "super"

\* LoginRequiredMixin.dispatch, then DispatchMixin.dispatch: what the request
\* gets before the generic view handles it.
DispatchMixin_dispatch(r, pk) ==
    IF r \notin Users THEN "login"
    ELSE IF pk \notin Range(Post_default_manager) THEN "404"
    ELSE IF posts[pk].author # r THEN "redirect"
    ELSE "super"

Refused(req, r, pk) ==
    CASE DispatchMixin_dispatch(r, pk) = "login" -> Redirect(req, "login", 0)
      [] DispatchMixin_dispatch(r, pk) = "404" -> NotFound(req)
      [] OTHER -> Redirect(req, "post_detail", pk)

PostUpdateView(r, pk, method, data) ==
    LET req == Request("post_update", r, "", pk, 0, method)
        valid == PostForm_is_valid(method, data)
        passed == DispatchMixin_dispatch(r, pk) = "super"
    IN  /\ resp' = IF ~passed THEN Refused(req, r, pk)
                   ELSE IF valid THEN Redirect(Validated(req, valid), "post_detail", pk)
                   ELSE Render(Validated(req, valid))
        /\ posts' = IF passed /\ valid
                    THEN [posts EXCEPT ![pk].category = data.category,
                                       ![pk].pub_date = data.pub_date,
                                       ![pk].is_published = data.is_published]
                    ELSE posts
        /\ UNCHANGED <<comments, users, now>>

\* Deleting a post deletes its comments with it.
Cascade(pk) ==
    [c \in CommentIds |-> IF comments[c].exists /\ comments[c].post_id = pk
                          THEN NoComment ELSE comments[c]]

PostDeleteView(r, pk, method) ==
    LET req == Request("post_delete", r, "", pk, 0, method)
        passed == DispatchMixin_dispatch(r, pk) = "super"
        deletes == passed /\ method = "POST"
    IN  /\ resp' = IF ~passed THEN Refused(req, r, pk)
                   ELSE IF deletes THEN Redirect(req, "index", 0)
                   ELSE Render(req)
        /\ posts' = IF deletes THEN [posts EXCEPT ![pk] = NoPost] ELSE posts
        /\ comments' = IF deletes THEN Cascade(pk) ELSE comments
        /\ UNCHANGED <<users, now>>

\* A variant whose filter has no author clause.
PostDetailView_queryset_published_only(r) ==
    Filter(PostManager_get_queryset, {i \in PostIds : posts[i].is_published})

\* Post.objects.filter(Q(is_published=True) | Q(author=self.request.user))
PostDetailView_queryset(r) ==
    Filter(PostManager_get_queryset,
           {i \in PostIds : posts[i].is_published \/ posts[i].author = r})

\* "ok", "404", or "error": a filter on author=AnonymousUser raises TypeError.
PostDetailView_get_object(r, pk) ==
    IF r \notin Users THEN "error"
    ELSE IF pk \in Range(PostDetailView_queryset(r)) THEN "ok"
    ELSE "404"

\* self.object.comments
post_comments(pk) ==
    Filter(Comment_default_manager, {c \in CommentIds : comments[c].post_id = pk})

PostDetailView(r, pk) ==
    LET req == Request("post_detail", r, "", pk, 0, "GET")
        got == PostDetailView_get_object(r, pk)
    IN  /\ resp' = CASE got = "error" -> ServerError(req)
                     [] got = "404" -> NotFound(req)
                     [] OTHER -> Render([req EXCEPT !.object_list = post_comments(pk)])
        /\ UNCHANGED <<posts, comments, users, now>>

\* get_object_or_404(Comment, id=comment_id, post_id=post_id)
comment_found(comment_id, post_id) ==
    /\ comment_id \in Range(Comment_default_manager)
    /\ comments[comment_id].post_id = post_id

add_comment(r, pk, method, text) ==
    LET req == Request("add_comment", r, "", pk, 0, method)
        found == pk \in Range(Post_default_manager)
        valid == CommentForm_is_valid(method, text)
        saves == r \in Users /\ found /\ valid
    IN  /\ saves => Len(comments) < MaxComments
        /\ resp' = IF r \notin Users THEN Redirect(req, "login", 0)
                   ELSE IF ~found THEN NotFound(req)
                   ELSE Redirect(Validated(req, valid), "post_detail", pk)
        /\ comments' = IF saves
                       THEN Append(comments,
                                [exists |-> TRUE, author |-> r, post_id |-> pk,
                                 text |-> text,
                                 post_was_public |->
                                     pk \in Range(PublishedPostManager_get_queryset)])
                       ELSE comments
        /\ UNCHANGED <<posts, users, now>>

\* A variant that saves the form without asking whether it is valid.
edit_comment_unchecked_save(r, comment_id, post_id, method, text) ==
    LET req == Request("edit_comment", r, "", post_id, comment_id, method)
        found == comment_found(comment_id, post_id)
        valid == CommentForm_is_valid(method, text)
        owner == found /\ comments[comment_id].author = r
    IN  /\ resp' = IF r \notin Users THEN Redirect(req, "login", 0)
                   ELSE IF ~found THEN NotFound(req)
                   ELSE IF ~owner THEN Redirect(req, "post_detail", post_id)
                   ELSE IF valid THEN Redirect(Validated(req, valid), "post_detail", post_id)
                   ELSE Render(Validated(req, valid))
        /\ comments' = IF r \in Users /\ owner /\ method = "POST"
                       THEN [comments EXCEPT ![comment_id].text = text]
                       ELSE comments
        /\ UNCHANGED <<posts, users, now>>

edit_comment(r, comment_id, post_id, method, text) ==
    LET req == Request("edit_comment", r, "", post_id, comment_id, method)
        found == comment_found(comment_id, post_id)
        valid == CommentForm_is_valid(method, text)
        owner == found /\ comments[comment_id].author = r
    IN  /\ resp' = IF r \notin Users THEN Redirect(req, "login", 0)
                   ELSE IF ~found THEN NotFound(req)
                   ELSE IF ~owner THEN Redirect(req, "post_detail", post_id)
                   ELSE IF valid THEN Redirect(Validated(req, valid), "post_detail", post_id)
                   ELSE Render(Validated(req, valid))
        /\ comments' = IF r \in Users /\ owner /\ valid
                       THEN [comments EXCEPT ![comment_id].text = text]
                       ELSE comments
        /\ UNCHANGED <<posts, users, now>>

delete_comment(r, comment_id, post_id, method) ==
    LET req == Request("delete_comment", r, "", post_id, comment_id, method)
        found == comment_found(comment_id, post_id)
        owner == found /\ comments[comment_id].author = r
        deletes == r \in Users /\ owner /\ method = "POST"
    IN  /\ resp' = IF r \notin Users THEN Redirect(req, "login", 0)
                   ELSE IF ~found THEN NotFound(req)
                   ELSE IF ~owner THEN Redirect(req, "post_detail", post_id)
                   ELSE IF deletes THEN Redirect(req, "post_detail", post_id)
                   ELSE Render(req)
        /\ comments' = IF deletes THEN [comments EXCEPT ![comment_id] = NoComment]
                       ELSE comments
        /\ UNCHANGED <<posts, users, now>>

\* timezone.now() moves on between requests.
Tick ==
    /\ now < MaxTime
    /\ now' = now + 1
    /\ UNCHANGED <<posts, comments, users, resp>>

\* paginate_objects applied to the list, page size and page parameter that
\* resp holds as a pending call.
Paginate ==
    /\ resp.view = "paginate_objects" /\ resp.status = ""
    /\ resp' = [resp EXCEPT
                    !.status = "ok",
                    !.page_obj = paginate_objects(resp.param, resp.object_list,
                                                  resp.per_page)]
    /\ UNCHANGED <<posts, comments, users, now>>

-----------------------------------------------------------------------------
(* The application: an empty database, then any request *)

Init ==
    /\ posts = <<>>
    /\ comments = <<>>
    /\ users = [u \in Users |-> "a@x"]
    /\ now = 0
    /\ resp = NoResponse

PostPks == 1..MaxPosts
CommentPks == 1..MaxComments

EditProfile == \E r \in Requesters, name \in Usernames, method \in Methods,
                  email \in Emails \cup {BadEmail} : edit_profile(r, name, method, email)
InfoProfile == \E r \in Requesters, name \in Usernames, param \in PageInputs :
                  info_profile(r, name, param)
Index == \E param \in PageInputs : PostListView(param)
CategoryPosts == \E slug \in Slugs, param \in PageInputs : category_posts(slug, param)
PostCreate == \E r \in Requesters, method \in Methods, data \in PostData :
                 PostCreateView(r, method, data)
PostUpdate == \E r \in Requesters, pk \in PostPks, method \in Methods, data \in PostData :
                 PostUpdateView(r, pk, method, data)
PostDelete == \E r \in Requesters, pk \in PostPks, method \in Methods :
                 PostDeleteView(r, pk, method)
PostDetail == \E r \in Requesters, pk \in PostPks : PostDetailView(r, pk)
AddComment == \E r \in Requesters, pk \in PostPks, method \in Methods,
                 text \in Texts \cup {""} : add_comment(r, pk, method, text)
EditComment == \E r \in Requesters, c \in CommentPks, pk \in PostPks, method \in Methods,
                  text \in Texts \cup {""} : edit_comment(r, c, pk, method, text)
DeleteComment == \E r \in Requesters, c \in CommentPks, pk \in PostPks, method \in Methods :
                    delete_comment(r, c, pk, method)

Next ==
    \/ EditProfile
    \/ InfoProfile
    \/ Index
    \/ CategoryPosts
    \/ PostCreate
    \/ PostUpdate
    \/ PostDelete
    \/ PostDetail
    \/ AddComment
    \/ EditComment
    \/ DeleteComment
    \/ Tick

Spec == Init /\ [][Next]_vars

-----------------------------------------------------------------------------
(* Scenarios: a database that Spec reaches, and the requests under study.   *)
(* A handler's answer depends on the stored records, the clock and the      *)
(* request alone, so each scenario answers one request per database.       *)

PostRows == [exists : {TRUE}, author : Users, category : Categories,
             pub_date : Times, is_published : BOOLEAN]

\* Every post table of at most n rows, rows deleted since included.
Tables(n) == UNION {[1..k -> PostRows \cup {NoPost}] : k \in 0..n}

\* Posts written while the clock read 0, some dated later; no comment yet.
InitPosts ==
    /\ posts \in Tables(MaxPosts)
    /\ comments = <<>>
    /\ users = [u \in Users |-> "a@x"]
    /\ now = 0
    /\ resp = NoResponse

\* No request answered yet.
Idle == resp = NoResponse

ListingNext ==
    \/ Idle /\ Tick
    \/ Idle /\ Index
    \/ Idle /\ CategoryPosts

DetailNext ==
    \/ Idle /\ Tick
    \/ Idle /\ PostDetail

\* info_profile does not read the clock.
ProfileNext == Idle /\ InfoProfile

\* One reading request against each such database, at each reading of the clock.
SpecListing == InitPosts /\ [][ListingNext]_vars
SpecDetail == InitPosts /\ [][DetailNext]_vars
SpecProfile == InitPosts /\ [][ProfileNext]_vars

\* A call of the pagination helper: a list of n records, a page size, a parameter.
InitPaginate ==
    /\ posts = <<>>
    /\ comments = <<>>
    /\ users = [u \in Users |-> "a@x"]
    /\ now = 0
    /\ \E n \in 0..MaxLen, per_page \in 1..MaxPerPage, param \in PageParams :
           resp = [NoResponse EXCEPT !.view = "paginate_objects",
                                     !.object_list = Ascending(1, n),
                                     !.per_page = per_page,
                                     !.param = param]

SpecPaginate == InitPaginate /\ [][Paginate]_vars

\* At most one comment, written on a stored post while that post was public.
CommentTables ==
    {<<>>} \cup
    {<<[exists |-> TRUE, author |-> a, post_id |-> i, text |-> "a",
        post_was_public |-> TRUE]>> :
        a \in Users, i \in {j \in PostIds : posts[j].exists}}

InitRequest ==
    /\ posts \in Tables(MaxPosts - 1)
    /\ comments \in CommentTables
    /\ users = [u \in Users |-> "a@x"]
    /\ now = 0
    /\ resp = NoResponse

\* One writing request against each such database.
RequestNext ==
    \/ Idle /\ EditProfile
    \/ Idle /\ PostCreate
    \/ Idle /\ PostUpdate
    \/ Idle /\ PostDelete
    \/ Idle /\ AddComment
    \/ Idle /\ EditComment
    \/ Idle /\ DeleteComment

SpecRequest == InitRequest /\ [][RequestNext]_vars

-----------------------------------------------------------------------------
(* Properties *)

\* The visibility predicate of the data model, for the post with key i.
PubliclyVisible(i) ==
    /\ posts[i].exists
    /\ posts[i].is_published
    /\ posts[i].pub_date <= now
    /\ CategoryIsPublished(posts[i].category)

Listed == Range(resp.object_list)

\* C1: a post is returned by the home listing, and by the category listing of
\* its own category, exactly when it is published, dated no later than now
\* and in a published category.
C1_PublicListing ==
    \A i \in PostIds :
        /\ resp.view = "index" /\ resp.status = "ok"
               => (i \in Listed <=> PubliclyVisible(i))
        /\ resp.view = "category_posts" /\ resp.name = posts[i].category
               => ((resp.status = "ok" /\ i \in Listed) <=> PubliclyVisible(i))

\* The home listing holds one post and leaves out another whose only failing
\* is its unpublished category.
C1_Witness ==
    /\ resp.view = "index" /\ resp.status = "ok"
    /\ \E i, j \in PostIds :
           /\ i \in Listed
           /\ j \notin Listed
           /\ posts[j].exists /\ posts[j].is_published /\ posts[j].pub_date <= now
           /\ ~CategoryIsPublished(posts[j].category)

\* A post to appear later: published, in a published category, dated after
\* the clock reading 0 at which it was written.
Scheduled(i) ==
    /\ posts[i].exists
    /\ posts[i].is_published
    /\ CategoryIsPublished(posts[i].category)
    /\ posts[i].pub_date > 0

\* C5: a post written with a later date is absent from every home listing
\* made before that date and present in every one made from that date on; it
\* enters the listing as the clock reaches its date.
C5_ScheduledPost ==
    [][\A i \in PostIds :
           Scheduled(i) =>
               /\ resp'.view = "index" /\ resp'.status = "ok"
                      => (i \in Range(resp'.object_list) <=> now' >= posts'[i].pub_date)
               /\ now < posts[i].pub_date /\ now' >= posts[i].pub_date
                      => /\ i \notin Range(PostListView_get_queryset)
                         /\ i \in Range(PostListView_get_queryset')]_vars

\* A home listing made after the clock moved on holds a post dated later
\* than the time it was written.
C5_Witness ==
    /\ resp.view = "index" /\ resp.status = "ok"
    /\ \E i \in Listed : Scheduled(i) /\ now >= posts[i].pub_date

\* C8: the posts of the home listing and of a category listing come in
\* descending order of publish timestamp.
C8_DescendingPubDate ==
    resp.view \in {"index", "category_posts"} /\ resp.status = "ok"
        => \A a, b \in 1..Len(resp.object_list) :
               a < b => posts[resp.object_list[a]].pub_date
                            >= posts[resp.object_list[b]].pub_date

\* A detail request by a signed-in requester for a stored post.
DetailOfStoredPost ==
    /\ resp.view = "post_detail"
    /\ resp.user \in Users
    /\ resp.pk \in PostIds
    /\ posts[resp.pk].exists

C3_VisibleOrAuthor ==
    DetailOfStoredPost =>
        (resp.status = "ok" <=>
             PubliclyVisible(resp.pk) \/ posts[resp.pk].author = resp.user)

\* C6: every stored comment was written by a signed-in user on a post that
\* was publicly visible when add_comment ran.
C6_CommentsOnVisiblePosts ==
    \A c \in CommentIds :
        comments[c].exists =>
            comments[c].author \in Users /\ comments[c].post_was_public

\* An edit or delete request by a signed-in user who is not the author of
\* the stored record the URL names, answered by q.
ByNonAuthor(q) ==
    /\ q.user \in Users
    /\ \/ /\ q.view \in {"post_update", "post_delete"}
          /\ q.pk \in PostIds
          /\ posts[q.pk].exists
          /\ posts[q.pk].author # q.user
       \/ /\ q.view \in {"edit_comment", "delete_comment"}
          /\ q.cid \in CommentIds
          /\ comments[q.cid].exists
          /\ comments[q.cid].post_id = q.pk
          /\ comments[q.cid].author # q.user

\* C4: an edit or delete request on a stored post or comment by a signed-in
\* user other than its author is answered with a redirect to the detail page
\* of the post concerned and leaves every stored record as it was.
C4_NonAuthorRedirected ==
    [][resp' # resp /\ ByNonAuthor(resp') =>
           /\ resp'.status = "redirect"
           /\ resp'.to = "post_detail"
           /\ resp'.to_pk = resp'.pk
           /\ UNCHANGED <<posts, comments, users>>]_vars

\* A POST to delete another user's post was answered with the redirect, the
\* post still stored.
C4_Witness ==
    /\ resp.view = "post_delete"
    /\ resp.method = "POST"
    /\ ByNonAuthor(resp)
    /\ resp.status = "redirect"
    /\ resp.to = "post_detail"

\* The page a call is specified to return: its number, the positions of its
\* first and last record, and the number of pages.
ExpectedPage(n, k, param) ==
    LET parsed == ParseInt(param.text)
        integer == param.present /\ parsed.ok
        pages == (n + k - 1) \div k
        last == IF pages >= 1 THEN pages ELSE 1
        number == IF ~integer THEN 1
                  ELSE IF parsed.value < 1 \/ parsed.value > last THEN last
                  ELSE parsed.value
        lo == (number - 1) * k + 1
        hi == IF number * k <= n THEN number * k ELSE n
    IN  [number |-> number, lo |-> lo, hi |-> hi, pages |-> pages,
         out_of_range |-> integer /\ (parsed.value < 1 \/ parsed.value > last)]

\* C7: paginate_objects returns page 1 for an absent or non-integer page
\* parameter, the last page for one out of range, otherwise the page asked
\* for; the page holds records (p-1)*K+1 .. min(p*K, N) in list order, the
\* last page the remainder, has_previous iff p > 1, has_next iff p < ceil(N/K).
C7_Pagination ==
    resp.view = "paginate_objects" /\ resp.status = "ok" =>
        LET n == Len(resp.object_list)
            k == resp.per_page
            e == ExpectedPage(n, k, resp.param)
            got == resp.page_obj
        IN  /\ got.number = e.number
            /\ Len(got.object_list) = e.hi - e.lo + 1
            /\ \A j \in 1..Len(got.object_list) :
                   got.object_list[j] = resp.object_list[e.lo + j - 1]
            /\ e.number = e.pages => Len(got.object_list) = n - (e.pages - 1) * k
            /\ got.has_previous <=> e.number > 1
            /\ got.has_next <=> e.number < e.pages

\* A page parameter beyond the last page was answered with the last page,
\* which is not the first and holds fewer records than the page size.
C7_Witness ==
    /\ resp.view = "paginate_objects" /\ resp.status = "ok"
    /\ ExpectedPage(Len(resp.object_list), resp.per_page, resp.param).out_of_range
    /\ ParseInt(resp.param.text).value > resp.page_obj.num_pages
    /\ resp.page_obj.number > 1
    /\ resp.page_obj.number = resp.page_obj.num_pages
    /\ Len(resp.page_obj.object_list) < resp.per_page

\* A POST whose form did not validate has just been answered.
FormRejected == resp' # resp /\ resp'.form = "invalid"

\* C9, as first stated: every handler given an invalid form stores nothing and
\* renders the form again instead of redirecting.
C9_InvalidFormRerendered ==
    [][FormRejected =>
           /\ UNCHANGED <<posts, comments, users>>
           /\ resp'.status = "ok"]_vars

\* C9, amended: every handler given an invalid form stores nothing;
\* edit_comment, edit_profile and the post create and update views render the
\* form again, and add_comment redirects to the post's detail page.
C9_InvalidFormNotSaved ==
    [][FormRejected =>
           /\ UNCHANGED <<posts, comments, users>>
           /\ IF resp'.view = "add_comment"
              THEN /\ resp'.status = "redirect"
                   /\ resp'.to = "post_detail"
                   /\ resp'.to_pk = resp'.pk
              ELSE resp'.status = "ok"]_vars

\* add_comment answered an invalid comment form with the redirect.
C9_Witness ==
    /\ resp.view = "add_comment"
    /\ resp.form = "invalid"
    /\ resp.status = "redirect"
    /\ resp.to = "post_detail"
    /\ comments = <<>>

\* Two responses that differ at most in who asked.
SameForAnyone(a, b) == [a EXCEPT !.user = ""] = [b EXCEPT !.user = ""]

\* C10: the profile listing of a user pages exactly the posts that user
\* wrote, the publicly invisible ones included, whoever asks; a username of
\* no user gets 404.
C10_ProfileListing ==
    /\ resp.view = "info_profile" =>
           IF resp.name \in Users
           THEN /\ resp.status = "ok"
                /\ Range(resp.page_obj.object_list) =
                       {i \in PostIds : posts[i].exists /\ posts[i].author = resp.name}
                /\ Len(resp.page_obj.object_list) =
                       Cardinality(Range(resp.page_obj.object_list))
           ELSE resp.status = "404"
    /\ Idle =>
           \A name \in Usernames, param \in PageInputs, r \in Users :
               SameForAnyone(info_profile_response(r, name, param),
                             info_profile_response(Anonymous, name, param))

\* A visitor who is not the profile's user is shown a post of that user that
\* is not publicly visible.
C10_Witness ==
    /\ resp.view = "info_profile" /\ resp.status = "ok"
    /\ resp.user # resp.name
    /\ \E i \in Range(resp.page_obj.object_list) :
           posts[i].author = resp.name /\ ~PubliclyVisible(i)

====
